---- MODULE Spec2Model ----
(***************************************************************************)
(* Model of GetSubgenome_M3.py: the `all`, `calculate` and `plot` commands *)
(* of the Mash chromosome comparison tool.  The state is the working       *)
(* directory (raw distance file, filtered result file, chart), the running *)
(* process (command, subgenome count, position in the pipeline, exit       *)
(* message) and the DataFrame process_results returns.                     *)
(*                                                                         *)
(* Strings that the program inspects (file paths, chromosome ids) are      *)
(* sequences of character codes, so that Path(x).stem and the string       *)
(* ordering of groupby / sort_values are computed, not assumed.            *)
(* Distances are counted in hundredths (0.01 is 1, 0.02 is 2).             *)
(***************************************************************************)
EXTENDS Integers, Sequences, FiniteSets

VARIABLES
    pc,           \* next step of the running process; "shell" before any run, "exit" after one
    command,      \* args.command of the current process
    subgenomes,   \* args.subgenomes of the current process (0 is None)
    steps,        \* steps the current process has started, in order
    exit_msg,     \* what the current process printed when it ended ("" while it runs)
    dist_file,    \* <ref>_<qry>_mashDistance: [exists, rows]
    filter_file,  \* <ref>_<qry>_mashDistance.filter.Gadd: [exists, rows]
    final_df,     \* the DataFrame process_results returned to this process
    kept,         \* for each row of final_df, the index label (input row number) it came from
    chart         \* TRUE once a PDF has been saved

vars == <<pc, command, subgenomes, steps, exit_msg, dist_file, filter_file,
          final_df, kept, chart>>

-----------------------------------------------------------------------------
(* Bounds of the model. *)

MaxRows == 3
MaxK == 2

(* Program constant: the largest -s the argument parser accepts. *)
MAX_SUBGENOMES == 10

-----------------------------------------------------------------------------
(* Strings as sequences of character codes. *)

Slash == 47
Dot == 46

chr1_A_fa == <<99, 104, 114, 49, 95, 65, 46, 102, 97>>                       \* "chr1_A.fa"
s_chr1_A_fasta == <<115, 47, 99, 104, 114, 49, 95, 65, 46, 102, 97, 115, 116, 97>> \* "s/chr1_A.fasta"
chr1_1_fa == <<99, 104, 114, 49, 46, 49, 46, 102, 97>>                       \* "chr1.1.fa"
chr1_B_fa == <<99, 104, 114, 49, 95, 66, 46, 102, 97>>                       \* "chr1_B.fa"
chr2_B_fa == <<99, 104, 114, 50, 95, 66, 46, 102, 97>>                       \* "chr2_B.fa"
chr1_A == <<99, 104, 114, 49, 95, 65>>                                       \* "chr1_A"
chr2_B == <<99, 104, 114, 50, 95, 66>>                                       \* "chr2_B"

RefPaths == {chr1_A_fa, s_chr1_A_fasta, chr1_1_fa}
QryPaths == {chr1_B_fa, chr2_B_fa}
Distances == {1, 2}

Max(S) == CHOOSE x \in S : \A y \in S : y <= x
Min2(a, b) == IF a <= b THEN a ELSE b

\* str.rfind(c) + 1: the last position of c in s, 0 when c does not occur
RFind(s, c) ==
    LET I == {i \in 1..Len(s) : s[i] = c}
    IN  IF I = {} THEN 0 ELSE Max(I)

\* PurePath.name: the final path component
PathName(p) == SubSeq(p, RFind(p, Slash) + 1, Len(p))

\* PurePath.stem: the final component without its last suffix; a leading or
\* trailing dot starts no suffix
Stem(p) ==
    LET name == PathName(p)
        i == RFind(name, Dot)
    IN  IF 1 < i /\ i < Len(name) THEN SubSeq(name, 1, i - 1) ELSE name

\* a < b for Python strings: lexicographic on code points
StrLess(a, b) ==
    \E k \in 1..(Len(a) + 1) :
        /\ k <= Len(b)
        /\ \A j \in 1..(k - 1) : a[j] = b[j]
        /\ (k = Len(a) + 1 \/ a[k] < b[k])

\* A stable sort of s by a strict weak order given on the positions of s
\* (less[j, i]: s[j] orders before s[i]): s[i] goes to position 1 + the number
\* of elements that precede it, equal elements keeping their order
StableSort(s, less) ==
    LET Before(j, i) == less[j, i] \/ (~less[i, j] /\ j < i)
        Rank(i) == 1 + Cardinality({j \in 1..Len(s) : Before(j, i)})
    IN  [k \in 1..Len(s) |-> s[CHOOSE i \in 1..Len(s) : Rank(i) = k]]

RECURSIVE Flatten(_)
Flatten(ss) == IF ss = <<>> THEN <<>> ELSE Head(ss) \o Flatten(Tail(ss))

-----------------------------------------------------------------------------
(* process_results *)

SG(i) == <<"SG", i>>                      \* f"SG{i}"

\* ReadDistances with Path(x).name in place of Path(x).stem
ReadDistancesByName(rows) ==
    [i \in 1..Len(rows) |->
        [Reference |-> rows[i].Reference, Query |-> rows[i].Query,
         Distance |-> rows[i].Distance,
         RefChr |-> PathName(rows[i].Reference), QryChr |-> PathName(rows[i].Query),
         idx |-> i]]

\* pd.read_csv of the raw file plus the RefChr / QryChr columns; idx is the
\* DataFrame's index label
ReadDistances(rows) ==
    [i \in 1..Len(rows) |->
        [Reference |-> rows[i].Reference, Query |-> rows[i].Query,
         Distance |-> rows[i].Distance,
         RefChr |-> Stem(rows[i].Reference), QryChr |-> Stem(rows[i].Query),
         idx |-> i]]

\* df.groupby("RefChr"): the keys in ascending order, each with its rows in
\* their original order
GroupKeys(df) ==
    LET keys == {df[i].RefChr : i \in 1..Len(df)}
        KeyRank(k) == 1 + Cardinality({j \in keys : StrLess(j, k)})
    IN  [n \in 1..Cardinality(keys) |-> CHOOSE k \in keys : KeyRank(k) = n]

GroupOf(df, key) == SelectSeq(df, LAMBDA r : r.RefChr = key)

DistanceLess(s) == [i, j \in 1..Len(s) |-> s[i].Distance < s[j].Distance]

Reverse(s) == [i \in 1..Len(s) |-> s[Len(s) + 1 - i]]
DistanceGreater(s) == [i, j \in 1..Len(s) |-> s[i].Distance > s[j].Distance]

\* NSmallest as group.nlargest(n, "Distance")
NLargest(group, n) ==
    SubSeq(StableSort(group, DistanceGreater(group)), 1, Min2(n, Len(group)))

\* NSmallest as group.head(n): no ordering by distance
HeadOfGroup(group, n) == SubSeq(group, 1, Min2(n, Len(group)))

\* NSmallest as group.sort_values("Distance"): n is not applied
SortedGroup(group, n) == StableSort(group, DistanceLess(group))

\* NSmallest with keep="last": equal distances latest first
NSmallestKeepLast(group, n) ==
    SubSeq(StableSort(Reverse(group), DistanceLess(Reverse(group))), 1, Min2(n, Len(group)))

\* group.nsmallest(n, "Distance"), keep="first": ascending by distance, equal
\* distances in their original order, the first n of them
NSmallest(group, n) ==
    SubSeq(StableSort(group, DistanceLess(group)), 1, Min2(n, Len(group)))

\* the rows appended to result for one group
Labelled(top_n) ==
    [i \in 1..Len(top_n) |->
        [Rchr |-> top_n[i].RefChr, Qchr |-> top_n[i].QryChr,
         Subg |-> SG(i), MashD |-> top_n[i].Distance, idx |-> top_n[i].idx]]

FilterTopN(df, n) ==
    LET keys == GroupKeys(df)
    IN  Flatten([g \in 1..Len(keys) |-> Labelled(NSmallest(GroupOf(df, keys[g]), n))])

RchrMashDLess(s) ==
    [i, j \in 1..Len(s) |->
        \/ StrLess(s[i].Rchr, s[j].Rchr)
        \/ (s[i].Rchr = s[j].Rchr /\ s[i].MashD < s[j].MashD)]

MashDLess(s) == [i, j \in 1..Len(s) |-> s[i].MashD < s[j].MashD]

\* SortValues as final_df.sort_values(by=["MashD"])
SortValuesByMashD(result) == StableSort(result, MashDLess(result))

\* final_df.sort_values(by=["Rchr", "MashD"]): a stable lexsort
SortValues(result) == StableSort(result, RchrMashDLess(result))

\* the rows of the table process_results builds, each with the index label of
\* the input row it was taken from
Processed(rows, n) == SortValues(FilterTopN(ReadDistances(rows), n))

Columns(result) ==
    [i \in 1..Len(result) |->
        [Rchr |-> result[i].Rchr, Qchr |-> result[i].Qchr,
         Subg |-> result[i].Subg, MashD |-> result[i].MashD]]

IndexLabels(result) == [i \in 1..Len(result) |-> result[i].idx]

\* pd.DataFrame([]) has no columns, so sort_values(by=["Rchr", "MashD"]) raises
SortRaises(rows) == FilterTopN(ReadDistances(rows), 1) = <<>>

-----------------------------------------------------------------------------
(* visualize *)

\* generate_color_scheme with the keys f"SG{i}" in place of f"SG{i+1}"
color_scheme_from_zero(n) ==
    [key \in {SG(i) : i \in 0..(n - 1)} |-> [marker |-> key[2] % 10]]

\* generate_color_scheme(n): one entry per key SG1..SGn
generate_color_scheme(n) ==
    [key \in {SG(i + 1) : i \in 0..(n - 1)} |-> [marker |-> (key[2] - 1) % 10]]

\* processed_df["Subg"].nunique()
NUnique(data) == Cardinality({data[i].Subg : i \in 1..Len(data)})

\* the COLOR_SCHEME[row["Subg"]] lookups of visualize: a label without an
\* entry raises KeyError, otherwise the chart is saved
MissingKeys(data, n) ==
    {data[i].Subg : i \in 1..Len(data)} \ DOMAIN generate_color_scheme(n)

-----------------------------------------------------------------------------
(* The files and the processes *)

NoFile == [exists |-> FALSE, rows |-> <<>>]
FileOf(rows) == [exists |-> TRUE, rows |-> rows]

\* the lines mash dist may print: every query and distance for chr1_A.fa, one
\* line for the second file named chr1_A and one for chr1.1
InputRows ==
    {r \in [Reference : RefPaths, Query : QryPaths, Distance : Distances] :
        \/ r.Reference = chr1_A_fa
        \/ (r.Reference = s_chr1_A_fasta /\ r.Query = chr1_B_fa /\ r.Distance = 1)
        \/ (r.Reference = chr1_1_fa /\ r.Query = chr2_B_fa /\ r.Distance = 2)}
Tables == UNION {[1..n -> InputRows] : n \in 0..MaxRows}

SeqkitFailed == "[ERROR] seqkit split failed"
SketchFailed == "[ERROR] Mash database construction failed"
DistFailed == "[ERROR] Distance calculation failed"
UnreadableData == "[ERROR] Unable to read data file"
KeyErrorRchr == "KeyError: 'Rchr'"
KeyErrorSubg == "KeyError: Subg label"
ErrorMessages ==
    {SeqkitFailed, SketchFailed, DistFailed, UnreadableData, KeyErrorRchr, KeyErrorSubg}

\* ExternalCall with an except clause that reports the failure and returns
ExternalCallReportsOnly(ok, next, msg) ==
    [pc |-> next, msg |-> IF ok THEN "" ELSE msg]

\* subprocess.run(cmd, check=True) inside try / except CalledProcessError:
\* a zero exit code goes on to the next step, any other ends the process
\* with sys.exit(msg)
ExternalCall(ok, next, msg) ==
    IF ok THEN [pc |-> next, msg |-> ""] ELSE [pc |-> "exit", msg |-> msg]

Init ==
    /\ pc = "shell"
    /\ command = "none"
    /\ subgenomes = 0
    /\ steps = <<>>
    /\ exit_msg = ""
    /\ dist_file = NoFile
    /\ filter_file = NoFile
    /\ final_df = <<>>
    /\ kept = <<>>
    /\ chart = FALSE

\* main() with the command `all` or `calculate` and -s k
StartCalculation(cmd, k) ==
    /\ pc = "shell"
    /\ cmd \in {"all", "calculate"}
    /\ k \in 1..Min2(MaxK, MAX_SUBGENOMES)
    /\ pc' = "split_ref"
    /\ command' = cmd
    /\ subgenomes' = k
    /\ UNCHANGED <<steps, exit_msg, dist_file, filter_file, final_df, kept, chart>>

\* split_fasta(args.ref_fasta, ...)
SplitReference(ok) ==
    /\ pc = "split_ref"
    /\ steps' = Append(steps, "split_ref")
    /\ pc' = ExternalCall(ok, "split_qry", SeqkitFailed).pc
    /\ exit_msg' = ExternalCall(ok, "split_qry", SeqkitFailed).msg
    /\ UNCHANGED <<command, subgenomes, dist_file, filter_file, final_df, kept, chart>>

\* split_fasta(args.qry_fasta, ...)
SplitQuery(ok) ==
    /\ pc = "split_qry"
    /\ steps' = Append(steps, "split_qry")
    /\ pc' = ExternalCall(ok, "sketch", SeqkitFailed).pc
    /\ exit_msg' = ExternalCall(ok, "sketch", SeqkitFailed).msg
    /\ UNCHANGED <<command, subgenomes, dist_file, filter_file, final_df, kept, chart>>

\* build_mash_db(ref_chrlist, ...)
BuildMashDb(ok) ==
    /\ pc = "sketch"
    /\ steps' = Append(steps, "sketch")
    /\ pc' = ExternalCall(ok, "dist", SketchFailed).pc
    /\ exit_msg' = ExternalCall(ok, "dist", SketchFailed).msg
    /\ UNCHANGED <<command, subgenomes, dist_file, filter_file, final_df, kept, chart>>

\* calculate_distances(...): the output file is opened for writing before
\* mash runs, and holds whatever mash printed
CalculateDistances(ok, out) ==
    /\ pc = "dist"
    /\ out \in Tables
    /\ steps' = Append(steps, "dist")
    /\ dist_file' = FileOf(out)
    /\ pc' = ExternalCall(ok, "filter", DistFailed).pc
    /\ exit_msg' = ExternalCall(ok, "filter", DistFailed).msg
    /\ UNCHANGED <<command, subgenomes, filter_file, final_df, kept, chart>>

\* process_results(dist_file, prefix, args.subgenomes)
ProcessResults ==
    /\ pc = "filter"
    /\ steps' = Append(steps, "filter")
    /\ IF SortRaises(dist_file.rows)
       THEN /\ pc' = "exit"
            /\ exit_msg' = KeyErrorRchr
            /\ UNCHANGED <<filter_file, final_df, kept>>
       ELSE LET result == Processed(dist_file.rows, subgenomes)
            IN  /\ final_df' = Columns(result)
                /\ kept' = IndexLabels(result)
                /\ filter_file' = FileOf(Columns(result))
                /\ pc' = IF command = "all" THEN "visualize" ELSE "exit"
                /\ exit_msg' = ""
    /\ UNCHANGED <<command, subgenomes, dist_file, chart>>

\* run_all: visualize(processed_df, output_pdf, args.subgenomes)
Visualize ==
    /\ pc = "visualize"
    /\ steps' = Append(steps, "visualize")
    /\ pc' = "exit"
    /\ IF MissingKeys(final_df, subgenomes) = {}
       THEN chart' = TRUE /\ exit_msg' = ""
       ELSE chart' = chart /\ exit_msg' = KeyErrorSubg
    /\ UNCHANGED <<command, subgenomes, dist_file, filter_file, final_df, kept>>

\* main() with the command `plot` and -s s (0: the option is absent):
\* run_visualization reads the data file and calls visualize
RunVisualization(s) ==
    /\ pc \in {"shell", "exit"}
    /\ s \in 0..MaxK
    /\ command' = "plot"
    /\ subgenomes' = s
    /\ pc' = "exit"
    /\ final_df' = <<>>
    /\ kept' = <<>>
    /\ IF ~filter_file.exists
       THEN /\ steps' = <<>>
            /\ exit_msg' = UnreadableData
            /\ chart' = chart
       ELSE LET processed_df == filter_file.rows
                n_subgenomes == IF s # 0 THEN s ELSE NUnique(processed_df)
            IN  /\ steps' = <<"visualize">>
                /\ IF MissingKeys(processed_df, n_subgenomes) = {}
                   THEN chart' = TRUE /\ exit_msg' = ""
                   ELSE chart' = chart /\ exit_msg' = KeyErrorSubg
    /\ UNCHANGED <<dist_file, filter_file>>

Next ==
    \/ \E cmd \in {"all", "calculate"}, k \in 1..MaxK : StartCalculation(cmd, k)
    \/ \E ok \in BOOLEAN : SplitReference(ok)
    \/ \E ok \in BOOLEAN : SplitQuery(ok)
    \/ \E ok \in BOOLEAN : BuildMashDb(ok)
    \/ \E ok \in BOOLEAN, out \in Tables : CalculateDistances(ok, out)
    \/ ProcessResults
    \/ Visualize
    \/ \E s \in 0..MaxK : RunVisualization(s)

Spec == Init /\ [][Next]_vars

TypeOK ==
    /\ pc \in {"shell", "split_ref", "split_qry", "sketch", "dist", "filter", "visualize", "exit"}
    /\ command \in {"none", "all", "calculate", "plot"}
    /\ subgenomes \in 0..MAX_SUBGENOMES
    /\ exit_msg \in ErrorMessages \cup {""}
    /\ chart \in BOOLEAN
    /\ Len(kept) = Len(final_df)

-----------------------------------------------------------------------------
(* Vocabulary of the properties *)

\* this process ran process_results and it returned a table
Returned ==
    /\ command \in {"all", "calculate"}
    /\ \E i \in 1..Len(steps) : steps[i] = "filter"
    /\ exit_msg # KeyErrorRchr

Input == dist_file.rows
RefIdOf(i) == Stem(Input[i].Reference)
QryIdOf(i) == Stem(Input[i].Query)
RefIds == {RefIdOf(i) : i \in 1..Len(Input)}
InputOf(id) == {i \in 1..Len(Input) : RefIdOf(i) = id}
OutputOf(id) == {p \in 1..Len(final_df) : final_df[p].Rchr = id}
RankOf(p) == final_df[p].Subg[2]
LabelsOf(P) == {final_df[p].Subg : p \in P}

\* the table of an earlier output, read again as distance records
Refeed(df) ==
    [i \in 1..Len(df) |->
        [Reference |-> df[i].Rchr, Query |-> df[i].Qchr, Distance |-> df[i].MashD]]

SuffixFree(df) ==
    \A i \in 1..Len(df) : Stem(df[i].Rchr) = df[i].Rchr /\ Stem(df[i].Qchr) = df[i].Qchr

ExampleInput ==
    << [Reference |-> chr1_A_fa, Query |-> chr1_B_fa, Distance |-> 2],
       [Reference |-> chr1_A_fa, Query |-> chr2_B_fa, Distance |-> 1] >>

ExampleOutput ==
    << [Rchr |-> chr1_A, Qchr |-> chr2_B, Subg |-> SG(1), MashD |-> 1] >>

-----------------------------------------------------------------------------
\* C1: for every K and input table, the output holds exactly
\* min(K, number of input records of the id) records for each reference
\* chromosome id of the input, and no record of any other id.
C1_GroupSizes ==
    Returned =>
        /\ \A id \in RefIds :
               Cardinality(OutputOf(id)) = Min2(subgenomes, Cardinality(InputOf(id)))
        /\ \A p \in 1..Len(final_df) : final_df[p].Rchr \in RefIds

\* one group cut down to K records next to one kept whole
C1_Witness ==
    /\ Returned
    /\ \E id \in RefIds : Cardinality(InputOf(id)) > subgenomes
    /\ \E id \in RefIds : Cardinality(InputOf(id)) <= subgenomes
    /\ \E i, j \in 1..Len(Input) :
           RefIdOf(i) = RefIdOf(j) /\ Input[i].Reference # Input[j].Reference

\* C2: the records kept for a reference chromosome are input records of that
\* group (same query id and distance), none of them farther than a record of
\* the group that was not kept; the example of the specification gives the
\* single row (chr1_A, chr2_B, SG1, 0.01).
C2_KSmallest ==
    /\ Returned =>
          \A id \in RefIds :
              \E S \in SUBSET InputOf(id) :
                  /\ Cardinality(S) = Cardinality(OutputOf(id))
                  /\ \A p \in OutputOf(id) :
                         Cardinality({q \in OutputOf(id) :
                                         /\ final_df[q].Qchr = final_df[p].Qchr
                                         /\ final_df[q].MashD = final_df[p].MashD})
                       = Cardinality({i \in S :
                                         /\ QryIdOf(i) = final_df[p].Qchr
                                         /\ Input[i].Distance = final_df[p].MashD})
                  /\ \A i \in S : \A j \in InputOf(id) \ S :
                         Input[i].Distance <= Input[j].Distance
    /\ (Returned /\ Input = ExampleInput /\ subgenomes = 1) => final_df = ExampleOutput

C2_Witness == Returned /\ Input = ExampleInput /\ subgenomes = 1

\* C3: within a reference chromosome group the distance is non-decreasing in
\* the rank label.
C3_NonDecreasing ==
    Returned =>
        \A p, q \in 1..Len(final_df) :
            (final_df[p].Rchr = final_df[q].Rchr /\ RankOf(p) < RankOf(q))
                => final_df[p].MashD <= final_df[q].MashD

C3_Witness ==
    /\ Returned
    /\ \E p, q \in 1..Len(final_df) :
           /\ final_df[p].Rchr = final_df[q].Rchr
           /\ RankOf(p) < RankOf(q)
           /\ final_df[p].MashD < final_df[q].MashD
    /\ \E i, j \in 1..Len(Input) :
           i < j /\ RefIdOf(i) = RefIdOf(j) /\ Input[i].Distance > Input[j].Distance

\* C4 as stated: within a reference chromosome group the distance is
\* strictly increasing in the rank label, and the group holds at most K
\* labelled records.
C4_StrictlyIncreasing ==
    Returned =>
        /\ \A p, q \in 1..Len(final_df) :
               (final_df[p].Rchr = final_df[q].Rchr /\ RankOf(p) < RankOf(q))
                   => final_df[p].MashD < final_df[q].MashD
        /\ \A id \in RefIds : Cardinality(OutputOf(id)) <= subgenomes

\* C4 amended: within a reference chromosome group the distance never
\* decreases as the rank label grows (two ranks share a distance when the
\* input distances tie), and the group holds at most K labelled records.
C4_Amended ==
    Returned =>
        /\ \A id \in RefIds : \A p, q \in OutputOf(id) :
               RankOf(p) < RankOf(q) => ~(final_df[q].MashD < final_df[p].MashD)
        /\ \A id \in RefIds : Cardinality(OutputOf(id)) <= subgenomes

\* a tie inside a group that was cut down to K records
C4_Witness ==
    /\ Returned
    /\ \E id \in RefIds :
           /\ Cardinality(InputOf(id)) > subgenomes
           /\ \E p, q \in OutputOf(id) :
                  RankOf(p) < RankOf(q) /\ final_df[p].MashD = final_df[q].MashD

\* C5 as stated: filtering the filtered table again with the same K gives the
\* same table, for every input table.
C5_Idempotent ==
    Returned => Columns(Processed(Refeed(final_df), subgenomes)) = final_df

\* C5 amended: filtering the filtered table again with the same K gives the
\* same table (rows, labels, order) provided no chromosome id in it carries a
\* suffix that Path(id).stem would strip.
C5_Amended ==
    (Returned /\ SuffixFree(final_df))
        => Columns(Processed(Refeed(final_df), subgenomes)) = final_df

\* a table with a tie between two queries, cut down by the first filtering
C5_Witness ==
    /\ Returned
    /\ SuffixFree(final_df)
    /\ Len(Input) > Len(final_df)
    /\ \E p, q \in 1..Len(final_df) :
           /\ p # q
           /\ final_df[p].Rchr = final_df[q].Rchr
           /\ final_df[p].MashD = final_df[q].MashD
           /\ final_df[p].Qchr # final_df[q].Qchr

\* C6: with an empty distance table process_results raises nothing and
\* persists an empty filtered table.
C6_EmptyInput ==
    (/\ command \in {"all", "calculate"}
     /\ \E i \in 1..Len(steps) : steps[i] = "filter"
     /\ Input = <<>>)
        => (exit_msg = "" /\ filter_file = FileOf(<<>>) /\ final_df = <<>>)

\* C7: the steps of `all` and `calculate` start in the order split reference,
\* split query, sketch, distances, filter (then visualize for `all`), each
\* after the previous one ended; a failed external call ends the process with
\* the message of that step, and then no later step was started, no filtered
\* file is written and no chart is rendered.
Pipeline(cmd) ==
    IF cmd = "all"
    THEN <<"split_ref", "split_qry", "sketch", "dist", "filter", "visualize">>
    ELSE <<"split_ref", "split_qry", "sketch", "dist", "filter">>

FailureOf(step) ==
    CASE step \in {"split_ref", "split_qry"} -> SeqkitFailed
      [] step = "sketch" -> SketchFailed
      [] step = "dist" -> DistFailed
      [] OTHER -> ""

C7_FailFast ==
    command \in {"all", "calculate"} =>
        /\ Len(steps) <= Len(Pipeline(command))
        /\ steps = SubSeq(Pipeline(command), 1, Len(steps))
        /\ pc # "exit" => pc = Pipeline(command)[Len(steps) + 1]
        /\ exit_msg \in {SeqkitFailed, SketchFailed, DistFailed} =>
               /\ pc = "exit"
               /\ steps # <<>>
               /\ exit_msg = FailureOf(steps[Len(steps)])
               /\ ~filter_file.exists
               /\ final_df = <<>>
               /\ ~chart
        /\ (pc = "exit" /\ exit_msg = "") => Len(steps) = Len(Pipeline(command))

\* mash dist failed in an `all` run after three steps that succeeded
C7_Witness ==
    /\ command = "all"
    /\ pc = "exit"
    /\ exit_msg = DistFailed
    /\ steps = <<"split_ref", "split_qry", "sketch", "dist">>
    /\ dist_file.exists

\* C8: of two records of one group with equal distance, the later one in the
\* input is kept only if the earlier one is, and when both are kept the
\* earlier one has the lower rank and the earlier output row.
PositionOf(i) == CHOOSE p \in 1..Len(kept) : kept[p] = i
IsKept(i) == \E p \in 1..Len(kept) : kept[p] = i

C9_Ordered ==
    Returned =>
        /\ filter_file = FileOf(final_df)
        /\ \A p \in 1..(Len(final_df) - 1) :
               \/ StrLess(final_df[p].Rchr, final_df[p + 1].Rchr)
               \/ /\ final_df[p].Rchr = final_df[p + 1].Rchr
                  /\ final_df[p].MashD <= final_df[p + 1].MashD
        /\ \A p \in 1..Len(final_df) :
               RankOf(p) = IF p > 1 /\ final_df[p - 1].Rchr = final_df[p].Rchr
                           THEN RankOf(p - 1) + 1
                           ELSE 1

\* two groups in the output, met in the input in the opposite order
C9_Witness ==
    /\ Returned
    /\ \E p \in 1..(Len(final_df) - 1) : StrLess(final_df[p].Rchr, final_df[p + 1].Rchr)
    /\ \E p \in 1..(Len(final_df) - 1) :
           final_df[p].Rchr = final_df[p + 1].Rchr /\ final_df[p].MashD < final_df[p + 1].MashD
    /\ \E i, j \in 1..Len(Input) : i < j /\ StrLess(RefIdOf(j), RefIdOf(i))

\* C10: the labels of each group of a filtered table are exactly SG1..SGn,
\* n the group's size, n <= K, each used once; so the labels of the table are
\* SG1..SGm with m <= K, and neither visualize called by `all` with K nor
\* `plot` detecting the number of labels from the file misses a colour key.
C10_NoMissingColour ==
    /\ Returned =>
          /\ \A id \in RefIds :
                 /\ LabelsOf(OutputOf(id)) = {SG(i) : i \in 1..Cardinality(OutputOf(id))}
                 /\ Cardinality(OutputOf(id)) <= subgenomes
          /\ \E m \in 1..subgenomes :
                 LabelsOf(1..Len(final_df)) = {SG(i) : i \in 1..m}
    /\ command = "all" => exit_msg # KeyErrorSubg
    /\ (command = "plot" /\ subgenomes = 0) => exit_msg # KeyErrorSubg

\* `plot` without -s drew a table whose groups differ in size
C10_Witness ==
    /\ command = "plot"
    /\ subgenomes = 0
    /\ steps = <<"visualize">>
    /\ exit_msg = ""
    /\ chart
    /\ NUnique(filter_file.rows) = 2
    /\ \E p \in 1..Len(filter_file.rows) :
           \A q \in 1..Len(filter_file.rows) :
               q # p => filter_file.rows[q].Rchr # filter_file.rows[p].Rchr

====
